---- MODULE Spec2Model ----
(***************************************************************************)
(* find-archive-matches.py: main, find_missing_items and compare_files,    *)
(* the archive-to-history matching engine of the repository, under the     *)
(* specification Spec; find_git_root under RootSpec; closest_commit of     *)
(* find-closest-commit.py under ClosestSpec; compare_logs of               *)
(* compare-logs.py under LogsSpec; parse_denial of                         *)
(* extract-selinux-denials.py under SelinuxSpec; find-duplicate-files.py   *)
(* under DupSpec.  Each specification runs one program and leaves the      *)
(* variables of the others idle.                                           *)
(*                                                                         *)
(* A file content is a sequence of lines; a line is a small integer and    *)
(* the line 0 stands for a line holding bytes that are not valid UTF-8.    *)
(* Every line is newline terminated.  The archive tree is the fixture      *)
(* Entries; the repository working tree, the contents of the files, the    *)
(* per-path revision lists, the blobs and the commit graph are inputs.     *)
(***************************************************************************)
EXTENDS Integers, Sequences, FiniteSets, TLC

\* Python's None, for the variables that hold a commit.
None == "None"

\* Python's None, for min_diff_length (an int otherwise; a diff is never empty).
NoLength == 0 - 1

\* The commits of the repository.
Commits == {"R1", "R2", "R3"}

\* The number of path revisions the repository holds, over all compared files.
MaxRevs == 3

\* The file contents that occur in the archive, the working tree and the blobs.
Contents == {<<1>>, <<1, 2>>, <<2, 2>>, <<0>>}

\* archive_path.rglob("*"), sorted: relative paths as pathlib parts.
Entries ==
    << [parts |-> <<".git">>, kind |-> "dir"],
       [parts |-> <<".git", "config">>, kind |-> "file"],
       [parts |-> <<"a.txt">>, kind |-> "file"],
       [parts |-> <<"d">>, kind |-> "dir"],
       [parts |-> <<"d", ".git">>, kind |-> "dir"],
       [parts |-> <<"d", "b.txt">>, kind |-> "file"],
       [parts |-> <<"d", "c.txt">>, kind |-> "file"] >>

Paths == 1 .. Len(Entries)

\* The index of the entry holding the parent directory of entry e, 0 at the top.
Parent(e) ==
    LET p == Entries[e].parts
    IN  IF Len(p) = 1 THEN 0
        ELSE CHOOSE q \in Paths : Entries[q].parts = SubSeq(p, 1, Len(p) - 1)

\* What git_root / git_subfolder / relative_path is in the working tree.
\* The working tree holds no .git below git_subfolder; a directory of the
\* archive is absent or a directory, a file below it absent or a file.
WorkTrees ==
    { t \in [Paths -> {"absent", "file", "dir"}] :
        /\ \A e \in Paths :
              /\ (t[e] # "absent" /\ Parent(e) # 0) => t[Parent(e)] = "dir"
              /\ Parent(e) # 0 => t[e] # "dir"
              /\ Entries[e].kind = "dir" => t[e] # "file"
        /\ t[1] = "absent" }

VARIABLES
    archive_is_dir,         \* archive_path.is_dir() at line 225
    git_root_found,         \* find_git_root(git_path) returns at line 230
    archive_root_found,     \* archive_root / git_subfolder == archive_path at line 237
    copy_files,             \* args.copy_files, "unread" until line 260 reads it
    make_merge_script,      \* args.make_merge_script, "unread" until line 269 reads it
    copied,                 \* the paths shutil.copy wrote, in order
    merge_script,           \* merge-script.sh: <<>> without the file, << files >> with it
    useDiff,                \* args.diff
    tree,                   \* the working tree below git_root / git_subfolder
    anc,                    \* the commit graph as repo.is_ancestor answers; {} until first asked
    pc,                     \* the position of the run
    error,                  \* the exception that ended the run, if any
    mindex,                 \* find_missing_items: the next entry of rglob
    aindex,                 \* compare_files: the index of archive_file in archive_files_list
    Messages,
    FilesMissing,
    FilesWithoutMatch,
    Printed,                \* the per-file lines print() wrote that are not in Messages
    queried,                \* the paths repo.iter_commits was called for
    first_match_commit,
    first_min_diff_commit,
    newer,                  \* the commit the last line calls newer
    archive_txt,
    git_txt,                \* the bytes of git_file, read by sha256sum at line 113
    file_commits,
    blobs,                  \* blobs[i]: commit.tree / path at file_commits[i]
    counter,
    matching_commit,
    min_diff_commit,
    min_diff_length

\* find_git_root.  A directory is named by its depth below the filesystem
\* root, which is 0: the parents of a path form one chain.
VARIABLES
    start_path,             \* path.resolve()
    git_dirs,               \* the directories d of the chain with (d / ".git").exists()
    current_path,
    root_pc                 \* "loop", "returned" (current_path is the result), "raised"

root_vars == << start_path, git_dirs, current_path, root_pc >>

\* find-closest-commit.py, closest_commit.
VARIABLES
    closest_files,          \* which of archive_file and git_file_path are files
    closest_archive,        \* archive_txt
    closest_commits,        \* file_commits
    closest_blobs,          \* closest_blobs[i]: commit.tree / path at file_commits[i]
    closest_counter,        \* the number of list elements the for loop has taken
    closest_min_commit,     \* min_diff_commit
    closest_min_length,     \* min_diff_length
    closest_min_counter,    \* min_diff_counter
    closest_pc,
    closest_out             \* what the report of line 67-75 printed

closest_vars ==
    << closest_files, closest_archive, closest_commits, closest_blobs,
       closest_counter, closest_min_commit, closest_min_length,
       closest_min_counter, closest_pc, closest_out >>

\* compare-logs.py, compare_logs.
VARIABLES
    file1_lines,
    file2_lines,
    context,
    used_indices,
    result,
    logs_i,                 \* the line number the running loop is at
    logs_pc                 \* "first" and "second" loop, "sort", "done"

logs_vars ==
    << file1_lines, file2_lines, context, used_indices, result, logs_i,
       logs_pc >>

\* extract-selinux-denials.py, SELinuxPolicyGenerator.
VARIABLES
    denials,                \* self.denials: a function from the keys it holds
    returned,               \* the (key, permissions) pairs parse_denial has returned
    parse_calls,            \* the number of calls of parse_denial
    parse_last              \* the last call: its argument, its outcome, the key it returned

selinux_vars == << denials, returned, parse_calls, parse_last >>

\* find-duplicate-files.py, find_identical_files and main.
VARIABLES
    dir1,                   \* dir1[p]: what dir1 / p is
    dir2,
    common_files,           \* the common files the loop has not taken yet
    identical_files,
    different,
    warned,                 \* the paths a 'Warning: Could not compare' was printed for
    dup_pc,
    dup_result,             \* what find_identical_files returned
    dup_exit                \* the value main returned, NoLength before

dup_vars ==
    << dir1, dir2, common_files, identical_files, different, warned, dup_pc,
       dup_result, dup_exit >>

\* The variables of the programs other than find-archive-matches.py's main.
tools == << root_vars, closest_vars, logs_vars, selinux_vars, dup_vars >>

\* What main reads of its arguments and writes besides the report.
main_state ==
    << archive_is_dir, git_root_found, archive_root_found, copy_files,
       make_merge_script, copied, merge_script >>

\* The variables of main, find_missing_items and compare_files.
matches_vars ==
    << main_state, useDiff, tree, anc, pc, error, mindex, aindex, Messages, FilesMissing,
       FilesWithoutMatch, Printed, queried, first_match_commit,
       first_min_diff_commit, newer, archive_txt, git_txt, file_commits, blobs,
       counter, matching_commit, min_diff_commit, min_diff_length >>

vars == << matches_vars, tools >>

\* The variables of one iteration of the loop over archive_files_list.
locals ==
    << archive_txt, git_txt, file_commits, blobs, counter, matching_commit,
       min_diff_commit, min_diff_length >>

\* The module level lists and what print() wrote.
report == << Messages, FilesMissing, FilesWithoutMatch, Printed >>

-----------------------------------------------------------------------------
(* Pure functions *)

\* Line 23 looking at the first component only.
is_git_related_top(path) == path[1] = ".git"

\* Line 22-23: ".git" in path.parts.
is_git_related(path) == \E i \in 1 .. Len(path) : path[i] = ".git"

\* hashlib.sha256(...).hexdigest(): a digest that tells any two contents apart.
RECURSIVE sha256sum(_)
sha256sum(txt) ==
    IF txt = <<>> THEN 1 ELSE (txt[1] + 1) + 4 * sha256sum(Tail(txt))

\* bytes.decode() succeeds.
Decodable(txt) == \A i \in 1 .. Len(txt) : txt[i] # 0

\* difflib.SequenceMatcher: the number of lines in the matching blocks of
\* a[alo+1 .. ahi] and b[blo+1 .. bhi]: the longest block that starts
\* earliest in a, then earliest in b, then the same to its left and right.
RECURSIVE MatchingLines(_, _, _, _, _, _)
MatchingLines(a, alo, ahi, b, blo, bhi) ==
    LET Block(i, j, k) ==
            /\ i + k <= ahi /\ j + k <= bhi
            /\ \A d \in 1 .. k : a[i + d] = b[j + d]
        Sizes == { k \in 0 .. (ahi - alo) :
                     \E i \in alo .. ahi, j \in blo .. bhi : Block(i, j, k) }
        best == CHOOSE k \in Sizes : \A m \in Sizes : m <= k
        besti == CHOOSE i \in alo .. ahi :
                    /\ \E j \in blo .. bhi : Block(i, j, best)
                    /\ \A i2 \in alo .. ahi :
                          (\E j \in blo .. bhi : Block(i2, j, best)) => i <= i2
        bestj == CHOOSE j \in blo .. bhi :
                    /\ Block(besti, j, best)
                    /\ \A j2 \in blo .. bhi : Block(besti, j2, best) => j <= j2
    IN  IF alo >= ahi \/ blo >= bhi \/ best = 0 THEN 0
        ELSE best + MatchingLines(a, alo, besti, b, blo, bestj)
                  + MatchingLines(a, besti + best, ahi, b, bestj + best, bhi)

\* len("".join(difflib.unified_diff(git_lines, archive_lines, ...)).splitlines())
\* for texts of at most three lines, which one hunk covers: the two file
\* header lines, the hunk header, and every line of both texts, a common
\* line once.
diff_length(git_lines, archive_lines) ==
    IF git_lines = archive_lines THEN 0
    ELSE 3 + Len(git_lines) + Len(archive_lines)
           - MatchingLines(git_lines, 0, Len(git_lines),
                           archive_lines, 0, Len(archive_lines))

\* repo.is_ancestor(a, b) on the commit graph A: a is b or an ancestor of b.
is_ancestor(A, a, b) == <<a, b>> \in A

\* The commit graphs: the partial orders on the commits.
PartialOrders ==
    { R \in SUBSET (Commits \X Commits) :
        /\ \A a \in Commits : <<a, a>> \in R
        /\ \A a, b \in Commits : (<<a, b>> \in R /\ <<b, a>> \in R) => a = b
        /\ \A a, b, c \in Commits :
              (<<a, b>> \in R /\ <<b, c>> \in R) => <<a, c>> \in R }

\* What repo.is_ancestor may answer from: the graph is fixed once it was read.
Graphs == IF anc = {} THEN PartialOrders ELSE {anc}

-----------------------------------------------------------------------------
(* The inputs of one run *)

N == Len(Entries)

\* The archive files compare_files reads: line 95, 97 and 102 let them through.
Comparable(t) ==
    { e \in Paths : /\ Entries[e].kind = "file"
                    /\ ~is_git_related(Entries[e].parts)
                    /\ t[e] = "file" }

\* The longest list repo.iter_commits returns: the path revisions of the
\* repository are spread over the compared files.
HistBound ==
    LET n == Cardinality(Comparable(tree))
    IN  MaxRevs \div (IF n = 0 THEN 1 ELSE n)

\* The lists repo.iter_commits(paths=...) may return: distinct commits.
Histories ==
    UNION { { h \in [1 .. n -> Commits] :
                \A i, j \in 1 .. n : h[i] = h[j] => i = j } :
            n \in 0 .. (IF HistBound < Cardinality(Commits)
                        THEN HistBound ELSE Cardinality(Commits)) }

\* commit.tree / path: the blob, or KeyError when the path is not in the tree.
Blobs ==
    { [found |-> FALSE, data |-> <<>>] }
        \cup { [found |-> TRUE, data |-> c] : c \in Contents }

Msg(kind, e, commit, lines) ==
    [kind |-> kind, path |-> e, commit |-> commit, lines |-> lines]

\* find_git_root is not running.
RootIdle ==
    /\ start_path = 0
    /\ git_dirs = {}
    /\ current_path = 0
    /\ root_pc = "idle"

\* A report line of closest_commit; NoLength where the line has no number.
Report(kind, commit, lines, count) ==
    [kind |-> kind, commit |-> commit, lines |-> lines, counter |-> count]

\* closest_commit is not running.
ClosestIdle ==
    /\ closest_files = "both"
    /\ closest_archive = <<>>
    /\ closest_commits = <<>>
    /\ closest_blobs = <<>>
    /\ closest_counter = 0
    /\ closest_min_commit = None
    /\ closest_min_length = NoLength
    /\ closest_min_counter = NoLength
    /\ closest_pc = "idle"
    /\ closest_out = Report("none", None, NoLength, NoLength)

\* compare_logs is not running.
LogsIdle ==
    /\ file1_lines = <<>>
    /\ file2_lines = <<>>
    /\ context = 0
    /\ used_indices = {}
    /\ result = <<>>
    /\ logs_i = 1
    /\ logs_pc = "idle"

\* Line 11: the generator as __init__ leaves it; no call was made.
SelinuxIdle ==
    /\ denials = << >>
    /\ returned = {}
    /\ parse_calls = 0
    /\ parse_last = [denial_string |-> << >>, outcome |-> "none", key |-> << >>]

\* find-duplicate-files.py is not running.
DupIdle ==
    /\ dir1 = << >>
    /\ dir2 = << >>
    /\ common_files = {}
    /\ identical_files = {}
    /\ different = {}
    /\ warned = {}
    /\ dup_pc = "idle"
    /\ dup_result = "none"
    /\ dup_exit = NoLength

\* No program but main is running.
ToolsIdle == RootIdle /\ ClosestIdle /\ LogsIdle /\ SelinuxIdle /\ DupIdle

Init ==
    /\ ToolsIdle
    /\ archive_is_dir \in BOOLEAN
    /\ git_root_found \in BOOLEAN
    /\ archive_root_found \in BOOLEAN
    /\ copy_files = "unread"
    /\ make_merge_script = "unread"
    /\ copied = <<>>
    /\ merge_script = <<>>
    /\ useDiff \in BOOLEAN
    /\ tree \in WorkTrees
    /\ anc = {}
    /\ pc = "main"
    /\ error = None
    /\ mindex = 1
    /\ aindex = 1
    /\ Messages = <<>>
    /\ FilesMissing = <<>>
    /\ FilesWithoutMatch = <<>>
    /\ Printed = <<>>
    /\ queried = {}
    /\ first_match_commit = None
    /\ first_min_diff_commit = None
    /\ newer = None
    /\ archive_txt = <<>>
    /\ git_txt = <<>>
    /\ file_commits = <<>>
    /\ blobs = <<>>
    /\ counter = 0
    /\ matching_commit = None
    /\ min_diff_commit = None
    /\ min_diff_length = NoLength

-----------------------------------------------------------------------------
(* main, up to the calls of find_missing_items and compare_files *)

\* Line 227, 246 without the return: main goes on after the error message.
AfterErrorContinue == "find_missing_items"

\* Line 227, 246: where main goes after the error message: return.
AfterError == "aborted"

\* Line 225-227: the archive path is no directory: the error is printed and
\* main returns.
ArchiveNotDirectory ==
    /\ pc = "main"
    /\ ~archive_is_dir
    /\ pc' = AfterError
    /\ UNCHANGED << tools, main_state, useDiff, tree, anc, error, mindex, aindex,
                    report, queried, first_match_commit,
                    first_min_diff_commit, newer, locals >>

\* Line 229-230, 244-246: find_git_root raises InvalidGitRepositoryError: the
\* error is printed and main returns.
NoGitRepository ==
    /\ pc = "main"
    /\ archive_is_dir
    /\ ~git_root_found
    /\ pc' = AfterError
    /\ UNCHANGED << tools, main_state, useDiff, tree, anc, error, mindex, aindex,
                    report, queried, first_match_commit,
                    first_min_diff_commit, newer, locals >>

\* Line 233-238: no parent of archive_path ends in git_subfolder: RuntimeError,
\* which the except clause of line 244 does not catch.
NoArchiveRoot ==
    /\ pc = "main"
    /\ archive_is_dir
    /\ git_root_found
    /\ ~archive_root_found
    /\ pc' = "crashed"
    /\ error' = "RuntimeError"
    /\ UNCHANGED << tools, main_state, useDiff, tree, anc, mindex, aindex, report,
                    queried, first_match_commit, first_min_diff_commit, newer,
                    locals >>

\* Line 225-249: the paths are resolved and main calls find_missing_items.
Resolved ==
    /\ pc = "main"
    /\ archive_is_dir
    /\ git_root_found
    /\ archive_root_found
    /\ pc' = "find_missing_items"
    /\ UNCHANGED << tools, main_state, useDiff, tree, anc, error, mindex, aindex,
                    report, queried, first_match_commit,
                    first_min_diff_commit, newer, locals >>

-----------------------------------------------------------------------------
(* find_missing_items *)

\* Line 63-64: an archive directory with no directory at the same path.
MissingDirectory(e, t) == Entries[e].kind = "dir" /\ t[e] # "dir"

\* Line 66-67: an archive file with nothing at the same path.
MissingFile(e, t) == Entries[e].kind = "file" /\ t[e] = "absent"

\* One iteration of the loop of find_missing_items.
MissingItem ==
    /\ pc = "find_missing_items"
    /\ mindex <= N
    /\ LET e == mindex
           skip == is_git_related(Entries[e].parts)
       IN  /\ Messages' =
                 IF ~skip /\ MissingDirectory(e, tree)
                 THEN Append(Messages, Msg("Missing directory", e, None, NoLength))
                 ELSE IF ~skip /\ MissingFile(e, tree)
                 THEN Append(Messages, Msg("Missing file", e, None, NoLength))
                 ELSE Messages
           /\ FilesMissing' =
                 IF ~skip /\ ~MissingDirectory(e, tree) /\ MissingFile(e, tree)
                 THEN Append(FilesMissing, e)
                 ELSE FilesMissing
    /\ mindex' = mindex + 1
    /\ UNCHANGED << tools, main_state, useDiff, tree, anc, pc, error, aindex, FilesWithoutMatch,
                    Printed, queried, first_match_commit,
                    first_min_diff_commit, newer, locals >>

\* find_missing_items returns and main calls compare_files (line 74-86).
EnterCompare ==
    /\ pc = "find_missing_items"
    /\ mindex > N
    /\ pc' = "compare_files"
    /\ first_match_commit' = None
    /\ first_min_diff_commit' = None
    /\ UNCHANGED << tools, main_state, useDiff, tree, anc, error, mindex, aindex, report, queried,
                    newer, locals >>

-----------------------------------------------------------------------------
(* compare_files *)

\* Line 102 with the test lost: every archive file is compared.
GitFilePresentAlways(status) == TRUE

\* Line 102: git_file.exists() and git_file.is_file().
GitFilePresent(status) == status = "file"

\* Line 95-102: the archive entry is a file to compare.
Compared(e) ==
    /\ Entries[e].kind = "file"
    /\ ~is_git_related(Entries[e].parts)
    /\ GitFilePresent(tree[e])

\* The loop goes on with the next archive_file; the variables of the
\* iteration are dead until they are assigned again.
NextFile ==
    /\ aindex' = aindex + 1
    /\ pc' = "compare_files"
    /\ archive_txt' = <<>>
    /\ git_txt' = <<>>
    /\ file_commits' = <<>>
    /\ blobs' = <<>>
    /\ counter' = 0
    /\ matching_commit' = None
    /\ min_diff_commit' = None
    /\ min_diff_length' = NoLength

\* Line 95-102: a directory, a .git path, or a file the working tree lacks.
SkipEntry ==
    /\ pc = "compare_files"
    /\ aindex <= N
    /\ ~Compared(aindex)
    /\ NextFile
    /\ UNCHANGED << tools, main_state, useDiff, tree, anc, error, mindex, report, queried,
                    first_match_commit, first_min_diff_commit, newer >>

\* Line 103-108: the archive file is read, hashed and, with --diff, decoded.
ReadArchive ==
    /\ pc = "compare_files"
    /\ aindex <= N
    /\ Compared(aindex)
    /\ \E txt \in Contents :
          /\ ~useDiff \/ Decodable(txt)
          /\ archive_txt' = txt
    /\ git_txt' \in Contents
    /\ pc' = "sha"
    /\ UNCHANGED << tools, main_state, useDiff, tree, anc, error, mindex, aindex, report, queried,
                    first_match_commit, first_min_diff_commit, newer,
                    file_commits, blobs, counter, matching_commit,
                    min_diff_commit, min_diff_length >>

\* Line 109-111: UnicodeDecodeError on the archive file: break.
DecodeBreak ==
    /\ pc = "compare_files"
    /\ aindex <= N
    /\ Compared(aindex)
    /\ useDiff
    /\ \E txt \in Contents :
          /\ ~Decodable(txt)
          /\ archive_txt' = txt
    /\ git_txt' \in Contents
    /\ Printed' = Append(Printed,
                    Msg("Error while decoding archive file", aindex, None, NoLength))
    /\ pc' = "break"
    /\ UNCHANGED << tools, main_state, useDiff, tree, anc, error, mindex, aindex, Messages,
                    FilesMissing, FilesWithoutMatch, queried,
                    first_match_commit, first_min_diff_commit, newer,
                    file_commits, blobs, counter, matching_commit,
                    min_diff_commit, min_diff_length >>

\* Line 113 with the comparison lost: every file is searched in the history.
DiffersAlways(archive_sha, git_sha) == TRUE

\* Line 113: archive_sha != sha256sum(git_file).
Differs(archive_sha, git_sha) == archive_sha # git_sha

\* Line 113 false: the working copy has the content of the archive file.
Unchanged ==
    /\ pc = "sha"
    /\ ~Differs(sha256sum(archive_txt), sha256sum(git_txt))
    /\ NextFile
    /\ UNCHANGED << tools, main_state, useDiff, tree, anc, error, mindex, report, queried,
                    first_match_commit, first_min_diff_commit, newer >>

\* Line 113-122: the contents differ; the revisions of the path are listed.
IterCommits ==
    /\ pc = "sha"
    /\ Differs(sha256sum(archive_txt), sha256sum(git_txt))
    /\ git_txt' = <<>>
    /\ \E h \in Histories :
          /\ file_commits' = h
          /\ blobs' \in [1 .. Len(h) -> Blobs]
    /\ queried' = queried \cup {aindex}
    /\ matching_commit' = None
    /\ min_diff_commit' = None
    /\ min_diff_length' = NoLength
    /\ counter' = 0
    /\ pc' = "scan"
    /\ UNCHANGED << tools, main_state, useDiff, tree, anc, error, mindex, aindex, report,
                    first_match_commit, first_min_diff_commit, newer,
                    archive_txt >>

\* Line 123: the for loop over file_commits is exhausted.
ScanEnd ==
    /\ pc = "scan"
    /\ counter = Len(file_commits)
    /\ pc' = "report"
    /\ UNCHANGED << tools, main_state, useDiff, tree, anc, error, mindex, aindex, report, queried,
                    first_match_commit, first_min_diff_commit, newer, locals >>

\* Line 130 as a break: the scan gives up at the first blob it cannot read.
AfterMissingBlobBreak == "report"

\* Line 128-130: where the scan goes after a blob that cannot be read: continue.
AfterMissingBlob == "scan"

\* Line 124-130: the path is not in the tree of the commit.
BlobMissing ==
    /\ pc = "scan"
    /\ counter < Len(file_commits)
    /\ ~blobs[counter + 1].found
    /\ counter' = counter + 1
    /\ pc' = AfterMissingBlob
    /\ UNCHANGED << tools, main_state, useDiff, tree, anc, error, mindex, aindex, report, queried,
                    first_match_commit, first_min_diff_commit, newer,
                    archive_txt, git_txt, file_commits, blobs, matching_commit,
                    min_diff_commit, min_diff_length >>

\* Line 138-141 with the arguments of is_ancestor swapped: the oldest is kept.
FoldOldest(A, first, commit) ==
    IF first = None \/ is_ancestor(A, commit, first) THEN commit ELSE first

\* Line 138-141: the newest commit with a matching file, folded by ancestry.
FoldNewest(A, first, commit) ==
    IF first = None \/ is_ancestor(A, first, commit) THEN commit ELSE first

\* Line 143 without the break: the scan goes on to the older revisions.
AfterMatchContinue == "scan"

\* Line 143: where the scan goes after an exact match: break.
AfterMatch == "report"

\* Line 134-143: the blob has the digest of the archive file.
ExactMatch ==
    /\ pc = "scan"
    /\ counter < Len(file_commits)
    /\ blobs[counter + 1].found
    /\ sha256sum(archive_txt) = sha256sum(blobs[counter + 1].data)
    /\ counter' = counter + 1
    /\ matching_commit' = file_commits[counter + 1]
    /\ \E A \in (IF first_match_commit = None THEN {anc} ELSE Graphs) :
          /\ anc' = A
          /\ first_match_commit' =
                FoldNewest(A, first_match_commit, file_commits[counter + 1])
    /\ pc' = AfterMatch
    /\ UNCHANGED << tools, main_state, useDiff, tree, error, mindex, aindex, report, queried,
                    first_min_diff_commit, newer, archive_txt, git_txt,
                    file_commits, blobs, min_diff_commit, min_diff_length >>

\* Line 145: git_txt.decode() raises UnicodeDecodeError, which nothing catches.
DiffUndecodable ==
    /\ pc = "scan"
    /\ counter < Len(file_commits)
    /\ blobs[counter + 1].found
    /\ sha256sum(archive_txt) # sha256sum(blobs[counter + 1].data)
    /\ useDiff
    /\ ~Decodable(blobs[counter + 1].data)
    /\ counter' = counter + 1
    /\ pc' = "crashed"
    /\ error' = "UnicodeDecodeError"
    /\ UNCHANGED << tools, main_state, useDiff, tree, anc, mindex, aindex, report, queried,
                    first_match_commit, first_min_diff_commit, newer,
                    archive_txt, git_txt, file_commits, blobs, matching_commit,
                    min_diff_commit, min_diff_length >>

\* Line 154 with < for >: the largest diff is kept.
CloserFlipped(min_length, length) ==
    min_length = NoLength \/ min_length < length

\* Line 154 with >= for >: an equal diff replaces the tracked minimum.
CloserOrEqual(min_length, length) ==
    min_length = NoLength \/ min_length >= length

\* Line 154: the diff replaces the tracked minimum.
Closer(min_length, length) == min_length = NoLength \/ min_length > length

\* Line 144-156: the diff of the blob against the archive file.
DiffStep ==
    /\ pc = "scan"
    /\ counter < Len(file_commits)
    /\ blobs[counter + 1].found
    /\ sha256sum(archive_txt) # sha256sum(blobs[counter + 1].data)
    /\ useDiff
    /\ Decodable(blobs[counter + 1].data)
    /\ counter' = counter + 1
    /\ LET length == diff_length(blobs[counter + 1].data, archive_txt)
       IN  IF Closer(min_diff_length, length)
           THEN /\ min_diff_commit' = file_commits[counter + 1]
                /\ min_diff_length' = length
           ELSE UNCHANGED << min_diff_commit, min_diff_length >>
    /\ UNCHANGED << tools, main_state, useDiff, tree, anc, pc, error, mindex, aindex, report,
                    queried, first_match_commit, first_min_diff_commit, newer,
                    archive_txt, git_txt, file_commits, blobs,
                    matching_commit >>

\* Line 134, 144: another digest and no --diff: nothing to do for the commit.
NoDiffStep ==
    /\ pc = "scan"
    /\ counter < Len(file_commits)
    /\ blobs[counter + 1].found
    /\ sha256sum(archive_txt) # sha256sum(blobs[counter + 1].data)
    /\ ~useDiff
    /\ counter' = counter + 1
    /\ UNCHANGED << tools, main_state, useDiff, tree, anc, pc, error, mindex, aindex, report,
                    queried, first_match_commit, first_min_diff_commit, newer,
                    archive_txt, git_txt, file_commits, blobs, matching_commit,
                    min_diff_commit, min_diff_length >>

\* Line 158 with the test lost: every file is reported as without match.
HasMatchNever(commit) == FALSE

\* Line 158: matching_commit is set.
HasMatch(commit) == commit # None

\* Line 158-161: the file matches an older revision.
ReportOlder ==
    /\ pc = "report"
    /\ HasMatch(matching_commit)
    /\ Printed' = Append(Printed,
                    Msg("Older file", aindex, matching_commit, counter))
    /\ NextFile
    /\ UNCHANGED << tools, main_state, useDiff, tree, anc, error, mindex, Messages, FilesMissing,
                    FilesWithoutMatch, queried, first_match_commit,
                    first_min_diff_commit, newer >>

\* Line 166: min_diff_commit.hexsha with min_diff_commit None.
NoClosest == useDiff /\ min_diff_commit = None

\* Line 163-166: AttributeError while the message is built.
ReportCrash ==
    /\ pc = "report"
    /\ ~HasMatch(matching_commit)
    /\ NoClosest
    /\ pc' = "crashed"
    /\ error' = "AttributeError"
    /\ UNCHANGED << tools, main_state, useDiff, tree, anc, mindex, aindex, report, queried,
                    first_match_commit, first_min_diff_commit, newer, locals >>

\* Line 163-175: the file differs from every revision read.
ReportWithoutMatch ==
    /\ pc = "report"
    /\ ~HasMatch(matching_commit)
    /\ ~NoClosest
    /\ Messages' = Append(Messages,
                     Msg("Differing file without match", aindex,
                         IF useDiff THEN min_diff_commit ELSE None,
                         IF useDiff THEN min_diff_length ELSE NoLength))
    /\ FilesWithoutMatch' = Append(FilesWithoutMatch, aindex)
    /\ \E A \in (IF first_min_diff_commit = None THEN {anc} ELSE Graphs) :
          /\ anc' = A
          /\ first_min_diff_commit' =
                FoldNewest(A, first_min_diff_commit, min_diff_commit)
    /\ NextFile
    /\ UNCHANGED << tools, main_state, useDiff, tree, error, mindex, FilesMissing, Printed,
                    queried, first_match_commit, newer >>

\* Line 186-190 with the arguments of is_ancestor swapped.
NewerSwapped(A, first_match, first_min_diff) ==
    IF is_ancestor(A, first_match, first_min_diff)
    THEN first_match
    ELSE first_min_diff

\* Line 186-190: the commit the last line of compare_files calls newer.
Newer(A, first_match, first_min_diff) ==
    IF is_ancestor(A, first_min_diff, first_match)
    THEN first_match
    ELSE first_min_diff

\* Line 177-190: the walk is over, by exhaustion or by the break of line 111.
Summary ==
    /\ \/ pc = "compare_files" /\ aindex > N
       \/ pc = "break"
    /\ \E A \in (IF first_match_commit = None \/ first_min_diff_commit = None
                 THEN {anc} ELSE Graphs) :
          /\ anc' = A
          /\ newer' =
                IF first_match_commit = None \/ first_min_diff_commit = None
                THEN None
                ELSE Newer(A, first_match_commit, first_min_diff_commit)
    /\ pc' = "done"
    /\ UNCHANGED << tools, main_state, useDiff, tree, error, mindex, aindex, report,
                    queried, first_match_commit, first_min_diff_commit,
                    locals >>

-----------------------------------------------------------------------------
(* main, after compare_files returned *)

\* sorted(fall): paths sort as the entries of the archive do.
sorted(paths) == SortSeq(paths, LAMBDA a, b : a < b)

\* Line 263: fall = FilesWithoutMatch + FilesMissing.
fall == FilesWithoutMatch \o FilesMissing

\* Line 257-260: the messages are printed; args.copy_files is read.
CopyRequested ==
    /\ pc = "done"
    /\ copy_files' = "given"
    /\ pc' = "copy"
    /\ UNCHANGED << tools, archive_is_dir, git_root_found, archive_root_found,
                    make_merge_script, copied, merge_script, useDiff, tree,
                    anc, error, mindex, aindex, report, queried,
                    first_match_commit, first_min_diff_commit, newer, locals >>

\* Line 260 false: no --copy-files.
CopyNotRequested ==
    /\ pc = "done"
    /\ copy_files' = "absent"
    /\ pc' = "merge"
    /\ UNCHANGED << tools, archive_is_dir, git_root_found, archive_root_found,
                    make_merge_script, copied, merge_script, useDiff, tree,
                    anc, error, mindex, aindex, report, queried,
                    first_match_commit, first_min_diff_commit, newer, locals >>

\* shutil.copy(src, dst) can create dst: the directory of dst exists.
CanCopyTo(f, t) == IF Parent(f) = 0 THEN TRUE ELSE t[Parent(f)] = "dir"

\* Line 264-266: one iteration of the loop over sorted(fall).
CopyFile ==
    /\ pc = "copy"
    /\ Len(copied) < Len(fall)
    /\ LET f == sorted(fall)[Len(copied) + 1]
       IN  /\ CanCopyTo(f, tree)
           /\ tree' = [tree EXCEPT ![f] = "file"]
           /\ copied' = Append(copied, f)
    /\ UNCHANGED << tools, archive_is_dir, git_root_found, archive_root_found,
                    copy_files, make_merge_script, merge_script, useDiff, anc,
                    pc, error, mindex, aindex, report, queried,
                    first_match_commit, first_min_diff_commit, newer, locals >>

\* Line 266: shutil.copy raises FileNotFoundError, the directory of the
\* destination is not in the working tree.
CopyCrash ==
    /\ pc = "copy"
    /\ Len(copied) < Len(fall)
    /\ ~CanCopyTo(sorted(fall)[Len(copied) + 1], tree)
    /\ pc' = "crashed"
    /\ error' = "FileNotFoundError"
    /\ UNCHANGED << tools, main_state, useDiff, tree, anc, mindex, aindex, report,
                    queried, first_match_commit, first_min_diff_commit, newer,
                    locals >>

\* Line 264: the loop over sorted(fall) is exhausted.
CopyEnd ==
    /\ pc = "copy"
    /\ Len(copied) = Len(fall)
    /\ pc' = "merge"
    /\ UNCHANGED << tools, main_state, useDiff, tree, anc, error, mindex, aindex,
                    report, queried, first_match_commit,
                    first_min_diff_commit, newer, locals >>

\* Line 271 over FilesWithoutMatch + FilesMissing, the list of the copy step.
script_files_all(files) ==
    [i \in 1 .. Len(files \o FilesMissing) |->
        << "git_subfolder", (files \o FilesMissing)[i] >>]

\* Line 271: [str(git_subfolder / f) for f in FilesWithoutMatch], a path
\* below git_subfolder as the pair of the prefix and the relative path.
script_files(files) ==
    [i \in 1 .. Len(files) |-> << "git_subfolder", files[i] >>]

\* Line 269-282: merge-script.sh is written with the files of
\* FilesWithoutMatch; main returns.
MergeScript ==
    /\ pc = "merge"
    /\ make_merge_script' = "given"
    /\ merge_script' = << script_files(FilesWithoutMatch) >>
    /\ pc' = "exited"
    /\ UNCHANGED << tools, archive_is_dir, git_root_found, archive_root_found,
                    copy_files, copied, useDiff, tree, anc, error, mindex,
                    aindex, report, queried, first_match_commit,
                    first_min_diff_commit, newer, locals >>

\* Line 269 false: no --make-merge-script; main returns.
NoMergeScript ==
    /\ pc = "merge"
    /\ make_merge_script' = "absent"
    /\ pc' = "exited"
    /\ UNCHANGED << tools, archive_is_dir, git_root_found, archive_root_found,
                    copy_files, copied, merge_script, useDiff, tree, anc,
                    error, mindex, aindex, report, queried,
                    first_match_commit, first_min_diff_commit, newer, locals >>

\* Line 284-285: the exit status of the interpreter once the run is over: 1
\* after an uncaught exception, 0 after main returned.
exit_status == IF pc = "crashed" THEN 1 ELSE 0

\* The run is over: main returned or an exception ended it.
Ended == pc \in {"aborted", "crashed", "exited"}

Next ==
    \/ ArchiveNotDirectory
    \/ NoGitRepository
    \/ NoArchiveRoot
    \/ Resolved
    \/ MissingItem
    \/ EnterCompare
    \/ SkipEntry
    \/ ReadArchive
    \/ DecodeBreak
    \/ Unchanged
    \/ IterCommits
    \/ ScanEnd
    \/ BlobMissing
    \/ ExactMatch
    \/ DiffUndecodable
    \/ DiffStep
    \/ NoDiffStep
    \/ ReportOlder
    \/ ReportCrash
    \/ ReportWithoutMatch
    \/ Summary
    \/ CopyRequested
    \/ CopyNotRequested
    \/ CopyFile
    \/ CopyCrash
    \/ CopyEnd
    \/ MergeScript
    \/ NoMergeScript

Spec == Init /\ [][Next]_vars

-----------------------------------------------------------------------------
(* Properties *)

InSeq(seq, e) == \E i \in 1 .. Len(seq) : seq[i] = e

HasLine(seq, kind, e) ==
    \E i \in 1 .. Len(seq) : seq[i].kind = kind /\ seq[i].path = e

\* The step handles an archive file whose working copy has the same bytes:
\* the digests are compared, or line 111 breaks before they are.
SameContentStep ==
    \/ pc = "sha" /\ archive_txt = git_txt
    \/ pc = "compare_files" /\ pc' = "break" /\ archive_txt' = git_txt'

\* C1: an archive file whose working copy exists with the same bytes is
\* unchanged: the step that handles it asks for no revision listing, puts it
\* in no list and no message, and leaves first_match_commit and
\* first_min_diff_commit as they were.
C1_UnchangedNoHistory ==
    [][SameContentStep =>
          /\ queried' = queried
          /\ aindex \notin queried
          /\ FilesMissing' = FilesMissing
          /\ ~InSeq(FilesMissing, aindex)
          /\ FilesWithoutMatch' = FilesWithoutMatch
          /\ ~InSeq(FilesWithoutMatch, aindex)
          /\ Messages' = Messages
          /\ first_match_commit' = first_match_commit
          /\ first_min_diff_commit' = first_min_diff_commit
          /\ pc' \in {"compare_files", "break"}]_vars

\* a.txt had the bytes of its working copy, was passed, and nothing was
\* listed or reported for it.
C1_Witness ==
    /\ pc = "compare_files"
    /\ aindex = 4
    /\ tree[3] = "file"
    /\ ~useDiff
    /\ 3 \notin queried
    /\ ~HasLine(Printed, "Older file", 3)

\* The history of the current file is listed: it is scanned or reported.
Scanning == pc \in {"scan", "report", "crashed"}

\* Revision i of the list has exactly the bytes of the archive file.
MatchAt(i) ==
    /\ i \in 1 .. Len(file_commits)
    /\ blobs[i].found
    /\ blobs[i].data = archive_txt

MatchSet == { i \in 1 .. Len(file_commits) : MatchAt(i) }

\* The newest revision with the bytes of the archive file.
FirstMatch == CHOOSE i \in MatchSet : \A j \in MatchSet : i <= j

\* C2: a differing archive file whose bytes are those of exactly one revision
\* of its list: the scan ends with matching_commit that revision, and the
\* file is reported as 'Older file', not as 'Differing file without match'.
C2_UniqueMatchReported ==
    [][(Scanning /\ Cardinality(MatchSet) = 1) =>
          /\ error' = None
          /\ pc = "report" =>
                /\ matching_commit = file_commits[FirstMatch]
                /\ Printed' = Append(Printed,
                                Msg("Older file", aindex,
                                    file_commits[FirstMatch], counter))
                /\ Messages' = Messages
                /\ FilesWithoutMatch' = FilesWithoutMatch]_vars

\* C3: when two or more revisions have the bytes of the archive file, the
\* scan passes the newest of them only by selecting it as matching_commit
\* and stopping there: no older revision is looked at.
C3_NewestMatchSelected ==
    (/\ pc \in {"scan", "report"}
     /\ Cardinality(MatchSet) >= 2
     /\ (matching_commit # None \/ counter >= FirstMatch))
        => /\ matching_commit = file_commits[FirstMatch]
           /\ counter = FirstMatch
           /\ pc = "report"

\* Two revisions match, a newer one does not, and the first match is selected.
C3_Witness ==
    /\ pc = "report"
    /\ Cardinality(MatchSet) >= 2
    /\ FirstMatch = 2
    /\ matching_commit = file_commits[2]

\* The scan is past revision k, the newest k - 1 revisions were unreadable
\* and revision k matches: it is the match found.
OlderMatchFound ==
    \A k \in 1 .. Len(file_commits) :
        (/\ Scanning
         /\ k <= counter
         /\ MatchAt(k)
         /\ \A j \in 1 .. (k - 1) : ~blobs[j].found)
            => matching_commit = file_commits[k] /\ pc = "report"

\* C4: a revision whose blob cannot be read does not end the scan: the scan
\* skips it, changes nothing else and goes on with the next older revision,
\* so that a match behind any number of unreadable newest revisions is found.
C4_UnreadableSkipped ==
    [][/\ (pc = "scan" /\ counter < Len(file_commits)
              /\ ~blobs[counter + 1].found)
          => /\ pc' = "scan"
             /\ counter' = counter + 1
             /\ error' = None
             /\ UNCHANGED << matching_commit, min_diff_commit, min_diff_length,
                             file_commits, blobs, archive_txt, aindex, report,
                             first_match_commit, first_min_diff_commit >>
       /\ OlderMatchFound']_vars

\* The two newest revisions were unreadable and the third one matched.
C4_Witness ==
    /\ pc = "report"
    /\ Len(file_commits) = 3
    /\ ~blobs[1].found
    /\ ~blobs[2].found
    /\ MatchAt(3)
    /\ matching_commit = file_commits[3]
    /\ counter = 3

\* What find_missing_items records for an archive entry the working tree lacks.
RecordedMissing(e) ==
    /\ HasLine(Messages,
               IF Entries[e].kind = "dir" THEN "Missing directory"
               ELSE "Missing file", e)
    /\ Entries[e].kind = "file" => InSeq(FilesMissing, e)

\* C5 as stated: once find_missing_items is over, every archive path the
\* working tree lacks is recorded as missing, and iter_commits is never
\* called for such a path.
C5_EveryAbsentRecorded ==
    \A e \in Paths :
        tree[e] = "absent" =>
            /\ e \notin queried
            /\ mindex > N => RecordedMissing(e)

\* C5, amended: once find_missing_items is over, every archive path without
\* a '.git' component that the working tree lacks is recorded as missing
\* (a file also in FilesMissing), and iter_commits is never called for a
\* path the working tree lacks, '.git' or not.
C5_AbsentRecordedNoQuery ==
    \A e \in Paths :
        tree[e] = "absent" =>
            /\ e \notin queried
            /\ (mindex > N /\ ~is_git_related(Entries[e].parts))
                  => RecordedMissing(e)

\* The run is over: d and d/b.txt were missing and recorded, a.txt was
\* searched in the history.
C5_Witness ==
    /\ pc = "done"
    /\ tree[4] = "absent"
    /\ tree[6] = "absent"
    /\ RecordedMissing(4)
    /\ RecordedMissing(6)
    /\ queried = {3}

\* Revision i of the list has a blob.
Readable(i) == i \in 1 .. Len(file_commits) /\ blobs[i].found

\* The diff line count of revision i against the archive file.
DiffAt(i) == diff_length(blobs[i].data, archive_txt)

\* C6: with --diff and no exact match, the closest commit and line count of
\* the message are those of a revision of the list whose blob was read, and
\* no revision whose blob was read has a smaller diff line count.
C6_ClosestIsMinimal ==
    [][(/\ pc = "report"
        /\ useDiff
        /\ matching_commit = None
        /\ pc' = "compare_files")
          => LET m == Messages'[Len(Messages')]
             IN  /\ Len(Messages') = Len(Messages) + 1
                 /\ m.kind = "Differing file without match"
                 /\ m.path = aindex
                 /\ \E i \in 1 .. Len(file_commits) :
                       /\ Readable(i)
                       /\ file_commits[i] = m.commit
                       /\ DiffAt(i) = m.lines
                 /\ \A j \in 1 .. Len(file_commits) :
                       Readable(j) => m.lines <= DiffAt(j)]_vars

\* Three revisions were diffed and the middle one is strictly the closest.
C6_Witness ==
    /\ pc = "report"
    /\ useDiff
    /\ matching_commit = None
    /\ Len(file_commits) = 3
    /\ \A i \in 1 .. 3 : Readable(i)
    /\ DiffAt(2) < DiffAt(1)
    /\ DiffAt(2) < DiffAt(3)
    /\ min_diff_commit = file_commits[2]
    /\ min_diff_length = DiffAt(2)

\* C7: among revisions with the same minimal diff line count the first one
\* of the newest-first scan is kept: the tracked closest revision is one of
\* the revisions diffed so far, its diff has the tracked line count, and
\* every revision diffed before it has a strictly larger diff, so that a
\* later revision replaced an earlier one only with a strictly smaller count.
C7_TiesKeepNewest ==
    (pc \in {"scan", "report"} /\ min_diff_commit # None) =>
        \E i \in 1 .. counter :
            /\ Readable(i)
            /\ file_commits[i] = min_diff_commit
            /\ DiffAt(i) = min_diff_length
            /\ \A j \in 1 .. (i - 1) : Readable(j) => DiffAt(j) > min_diff_length

\* Two revisions with different blobs tie for the smallest diff and the
\* newer of them is the one kept.
C7_Witness ==
    /\ pc = "report"
    /\ useDiff
    /\ matching_commit = None
    /\ \E i, j \in 1 .. Len(file_commits) :
          /\ i < j
          /\ Readable(i)
          /\ Readable(j)
          /\ blobs[i].data # blobs[j].data
          /\ DiffAt(i) = DiffAt(j)
          /\ DiffAt(i) = min_diff_length
          /\ min_diff_commit = file_commits[i]

\* The scan of the current file tracked a closest revision.
HasClosest == useDiff /\ min_diff_commit # None

\* C8: a differing file without exact match is reported: with --diff and a
\* diffed revision the message carries the closest revision and its line
\* count, otherwise (no --diff, an empty list, no readable blob) it carries
\* no revision; the file is added to FilesWithoutMatch and the walk goes on.
C8_NoMatchReported ==
    [][(pc = "report" /\ matching_commit = None)
          => /\ Messages' =
                   Append(Messages,
                          Msg("Differing file without match", aindex,
                              IF HasClosest THEN min_diff_commit ELSE None,
                              IF HasClosest THEN min_diff_length ELSE NoLength))
             /\ FilesWithoutMatch' = Append(FilesWithoutMatch, aindex)
             /\ error' = None
             /\ pc' = "compare_files"
             /\ aindex' = aindex + 1]_vars

\* C9: with --diff, an archive file that cannot be decoded is classified as
\* differing without revision, and the walk goes on: when the run is over,
\* every archive file that is compared was reached.
C9_DecodeFailureContinues ==
    \A e \in Paths :
        /\ (pc = "done" /\ Compared(e)) => aindex > e
        /\ (pc = "done"
              /\ HasLine(Printed, "Error while decoding archive file", e))
                 => InSeq(FilesWithoutMatch, e)

\* The revisions returned as exact historical matches so far.
MatchedRevs ==
    { Printed[i].commit :
        i \in { k \in 1 .. Len(Printed) : Printed[k].kind = "Older file" } }
      \cup (IF matching_commit = None THEN {} ELSE {matching_commit})

\* C10: first_match_commit is None exactly when no file had an exact
\* historical match; otherwise it is one of the matched revisions and no
\* matched revision is a proper descendant of it, whatever partial order the
\* ancestry is and whatever order the matches came in.
C10_FirstMatchMaximal ==
    /\ first_match_commit = None <=> MatchedRevs = {}
    /\ first_match_commit # None =>
          /\ first_match_commit \in MatchedRevs
          /\ \A r \in MatchedRevs :
                r # first_match_commit =>
                    /\ anc # {}
                    /\ ~is_ancestor(anc, first_match_commit, r)

\* Three files matched three commits of a history that is not linear; the
\* first match was replaced by the second, which the third did not replace.
C10_Witness ==
    /\ pc = "done"
    /\ Len(Printed) = 3
    /\ Cardinality(MatchedRevs) = 3
    /\ first_match_commit = Printed[2].commit
    /\ \E a, b \in Commits :
          a # b /\ ~is_ancestor(anc, a, b) /\ ~is_ancestor(anc, b, a)

\* compare_files has returned to main.
Returned == pc \in {"done", "copy", "merge", "exited"}

\* a is an ancestor of b on the graph is_ancestor answered from, and not b.
ProperAncestor(a, b) == a # b /\ is_ancestor(anc, a, b)

\* C11: when the walk ends with first_match_commit and first_min_diff_commit
\* both set, the commit the last line calls newer is one of the two and no
\* proper ancestor of the other: first_match_commit when
\* first_min_diff_commit is it or an ancestor of it, first_min_diff_commit
\* otherwise.
C11_NewerNotProperAncestor ==
    /\ (Returned /\ first_match_commit # None /\ first_min_diff_commit # None)
          => newer # None
    /\ newer # None =>
          /\ newer \in {first_match_commit, first_min_diff_commit}
          /\ ~ProperAncestor(newer, first_match_commit)
          /\ ~ProperAncestor(newer, first_min_diff_commit)
          /\ newer = first_match_commit
                <=> is_ancestor(anc, first_min_diff_commit, first_match_commit)

\* The closest revision is a proper ancestor of the matching one, which is
\* called newer.
C11_Witness ==
    /\ pc = "done"
    /\ newer = first_match_commit
    /\ ProperAncestor(first_min_diff_commit, first_match_commit)

\* C12: when the archive path is no directory or no Git root is found above
\* the repository path, main aborts before any report: find_missing_items
\* and compare_files are never entered, Messages, FilesMissing and
\* FilesWithoutMatch stay empty, nothing is copied and no merge script is
\* written.
C12_AbortBeforeReport ==
    (~archive_is_dir \/ ~git_root_found) =>
        /\ pc \in {"main", "aborted"}
        /\ mindex = 1
        /\ aindex = 1
        /\ queried = {}
        /\ Messages = <<>>
        /\ FilesMissing = <<>>
        /\ FilesWithoutMatch = <<>>
        /\ Printed = <<>>
        /\ copy_files = "unread"
        /\ copied = <<>>
        /\ make_merge_script = "unread"
        /\ merge_script = <<>>

\* The archive is a directory, no Git root was found and main has returned.
C12_Witness ==
    /\ pc = "aborted"
    /\ archive_is_dir
    /\ ~git_root_found

\* C13: the run ends with a non-zero exit status when the archive path is no
\* directory or no Git root is found above the repository path, and with
\* exit status 0 otherwise, whatever the comparison found.
C13_FailureExitStatus ==
    Ended => (exit_status # 0 <=> (~archive_is_dir \/ ~git_root_found))

\* find_missing_items and compare_files have gone through every archive entry.
FullComparison == mindex > N /\ aindex > N

\* C14: the copy step runs only with --copy-files and merge-script.sh is
\* written only with --make-merge-script, and each only after
\* find_missing_items and compare_files have processed every archive entry.
C14_OptInAfterFullComparison ==
    /\ (pc = "copy" \/ copied # <<>>) =>
          (copy_files = "given" /\ FullComparison)
    /\ merge_script # <<>> =>
          (make_merge_script = "given" /\ FullComparison)

\* C15: with --copy-files, once the run is over every file of FilesMissing
\* and of FilesWithoutMatch was copied from the archive to its path in the
\* working tree, which then holds a file, also where the directory of a
\* missing file is itself missing.
C15_EveryUnmatchedCopied ==
    (copy_files = "given" /\ Ended) =>
        \A f \in Paths :
            (InSeq(FilesMissing, f) \/ InSeq(FilesWithoutMatch, f)) =>
                (InSeq(copied, f) /\ tree[f] = "file")

\* The position of matching_commit in the list iter_commits returned, the
\* newest revision at position 0.
MatchPosition ==
    (CHOOSE i \in 1 .. Len(file_commits) : file_commits[i] = matching_commit) - 1

\* C16: the distance the 'Older file' line reports for an exact match is the
\* position of the matching revision in the list, the newest revision at
\* position 0.
C16_DistanceFromZero ==
    [][(pc = "report" /\ matching_commit # None) =>
          Printed' = Append(Printed,
                       Msg("Older file", aindex, matching_commit, MatchPosition))]_vars

\* The report buckets of an archive file: missing file, unchanged (compared
\* and never searched in the history), matched-older, diverged-without-match.
Buckets(e) ==
    { b \in {"missing file", "unchanged", "matched-older", "diverged"} :
        \/ b = "missing file" /\ InSeq(FilesMissing, e)
        \/ b = "unchanged" /\ Compared(e) /\ e \notin queried
        \/ b = "matched-older" /\ HasLine(Printed, "Older file", e)
        \/ b = "diverged" /\ InSeq(FilesWithoutMatch, e) }

\* C18: after a walk that went through every archive entry, every entry
\* without a '.git' component is in exactly one bucket: a directory the
\* working tree lacks is reported missing, a file is in exactly one of
\* missing file, unchanged, matched-older and diverged-without-match, also
\* when the working tree holds a directory where the archive has the file;
\* no file is in both FilesMissing and FilesWithoutMatch.
C18_ExactlyOneBucket ==
    (pc = "done" /\ aindex > N) =>
        \A e \in Paths :
            ~is_git_related(Entries[e].parts) =>
                /\ (Entries[e].kind = "dir" /\ tree[e] # "dir")
                      => HasLine(Messages, "Missing directory", e)
                /\ Entries[e].kind = "file" => Cardinality(Buckets(e)) = 1

\* The archive entry has a component named .git, at whatever depth.
HasGitComponent(e) ==
    ".git" \in { Entries[e].parts[i] : i \in 1 .. Len(Entries[e].parts) }

\* No line of the sequence is about path e.
NoLineFor(seq, e) == \A i \in 1 .. Len(seq) : seq[i].path # e

AtUndecodableBlob ==
    /\ pc = "scan"
    /\ useDiff
    /\ counter < Len(file_commits)
    /\ blobs[counter + 1].found
    /\ blobs[counter + 1].data # archive_txt
    /\ ~Decodable(blobs[counter + 1].data)

\* C20: with --diff, a historical blob that cannot be decoded ends no run:
\* the failure is caught, the scan of the file goes on to its no-match
\* result with the minimum found so far (or none), and no exception is
\* raised.
C20_UndecodableBlobCaught ==
    [][AtUndecodableBlob =>
          /\ error' = None
          /\ pc' \in {"scan", "report"}
          /\ min_diff_commit' = min_diff_commit
          /\ min_diff_length' = min_diff_length]_vars

\* C22: with --make-merge-script, merge-script.sh lists the files of
\* FilesWithoutMatch and no other, each below git_subfolder: no missing
\* file, no unchanged file, no file with an exact match in the history; and
\* the step that writes it changes nothing in the working tree.
C22_ScriptListsDiverged ==
    [][(pc = "merge" /\ make_merge_script' = "given") =>
          /\ Len(merge_script') = 1
          /\ LET files == merge_script'[1]
                 listed == { files[j][2] : j \in 1 .. Len(files) }
             IN  /\ \A j \in 1 .. Len(files) : files[j][1] = "git_subfolder"
                 /\ Len(files) = Len(FilesWithoutMatch)
                 /\ \A e \in Paths :
                       e \in listed <=> InSeq(FilesWithoutMatch, e)
                 /\ \A e \in listed :
                       /\ ~InSeq(FilesMissing, e)
                       /\ ~HasLine(Printed, "Older file", e)
                       /\ e \in queried
          /\ tree' = tree
          /\ copied' = copied]_vars

\* The script was written after a walk that found a missing file, a file
\* with an exact match and a file without: only the last is listed.
C22_Witness ==
    /\ pc = "exited"
    /\ make_merge_script = "given"
    /\ Len(merge_script) = 1
    /\ Len(merge_script[1]) = 1
    /\ FilesMissing # <<>>
    /\ \E e \in Paths : HasLine(Printed, "Older file", e)

\* C23: an exact match takes precedence over the diffs: a file whose scan
\* found an exact match is reported as 'Older file' and nothing else, is
\* not added to FilesWithoutMatch and leaves first_min_diff_commit as it
\* was, whatever closest revision the scan had tracked; and
\* first_match_commit changes only in the step that finds an exact match, to
\* a value the fold takes from that match, never for a file without one.
C23_MatchPrecedence ==
    [][/\ (pc = "report" /\ matching_commit # None) =>
             /\ Printed' = Append(Printed,
                             Msg("Older file", aindex, matching_commit, counter))
             /\ Messages' = Messages
             /\ FilesWithoutMatch' = FilesWithoutMatch
             /\ first_min_diff_commit' = first_min_diff_commit
       /\ first_match_commit' # first_match_commit =>
             /\ pc = "scan"
             /\ MatchAt(counter + 1)
             /\ first_match_commit' = file_commits[counter + 1]
       /\ (pc = "report" /\ matching_commit = None) =>
             first_match_commit' = first_match_commit]_vars

\* With --diff the scan diffed the newest revision, tracked it as the
\* closest, and then found an exact match at the next one.
C23_Witness ==
    /\ useDiff
    /\ pc = "report"
    /\ counter = 2
    /\ matching_commit = file_commits[2]
    /\ min_diff_commit = file_commits[1]

-----------------------------------------------------------------------------
(* find_git_root *)

\* main is not running: its variables rest at fixed values.
MatchesIdle ==
    /\ archive_is_dir = FALSE
    /\ git_root_found = FALSE
    /\ archive_root_found = FALSE
    /\ copy_files = "unread"
    /\ make_merge_script = "unread"
    /\ copied = <<>>
    /\ merge_script = <<>>
    /\ useDiff = FALSE
    /\ tree = [e \in Paths |-> "absent"]
    /\ anc = {}
    /\ pc = "idle"
    /\ error = None
    /\ mindex = 1
    /\ aindex = 1
    /\ Messages = <<>>
    /\ FilesMissing = <<>>
    /\ FilesWithoutMatch = <<>>
    /\ Printed = <<>>
    /\ queried = {}
    /\ first_match_commit = None
    /\ first_min_diff_commit = None
    /\ newer = None
    /\ archive_txt = <<>>
    /\ git_txt = <<>>
    /\ file_commits = <<>>
    /\ blobs = <<>>
    /\ counter = 0
    /\ matching_commit = None
    /\ min_diff_commit = None
    /\ min_diff_length = NoLength

\* The deepest path find_git_root is called with.
MaxDepth == 4

\* pathlib's parent: the parent of the filesystem root is the root.
parent(p) == IF p = 0 THEN 0 ELSE p - 1

\* Line 196 as a test that never ends the loop at the filesystem root.
LoopEndsNever(p) == FALSE

\* Line 196: the while condition fails, current_path == current_path.parent.
LoopEnds(p) == p = parent(p)

RootInit ==
    /\ MatchesIdle
    /\ ClosestIdle
    /\ LogsIdle
    /\ SelinuxIdle
    /\ DupIdle
    /\ start_path \in 0 .. MaxDepth
    /\ git_dirs \in SUBSET (0 .. MaxDepth)
    /\ current_path = start_path
    /\ root_pc = "loop"

\* Line 197-198: current_path holds .git and is returned.
RootReturn ==
    /\ root_pc = "loop"
    /\ ~LoopEnds(current_path)
    /\ current_path \in git_dirs
    /\ root_pc' = "returned"
    /\ UNCHANGED << matches_vars, closest_vars, logs_vars, selinux_vars,
                    dup_vars, start_path, git_dirs,
                    current_path >>

\* Line 199: the loop goes on with the parent.
RootAscend ==
    /\ root_pc = "loop"
    /\ ~LoopEnds(current_path)
    /\ current_path \notin git_dirs
    /\ current_path' = parent(current_path)
    /\ UNCHANGED << matches_vars, closest_vars, logs_vars, selinux_vars,
                    dup_vars, start_path, git_dirs,
                    root_pc >>

\* Line 200-202: the loop is over: InvalidGitRepositoryError.
RootRaise ==
    /\ root_pc = "loop"
    /\ LoopEnds(current_path)
    /\ root_pc' = "raised"
    /\ UNCHANGED << matches_vars, closest_vars, logs_vars, selinux_vars,
                    dup_vars, start_path, git_dirs,
                    current_path >>

RootNext ==
    \/ RootReturn
    \/ RootAscend
    \/ RootRaise

RootSpec == RootInit /\ [][RootNext]_vars

\* The directories from the path up to and including directory top that
\* hold a .git entry.
Marked(top) == { d \in top .. start_path : d \in git_dirs }

\* The nearest of them.
Nearest(top) == CHOOSE d \in Marked(top) : \A e \in Marked(top) : e <= d

\* C21 as stated: find_git_root returns the nearest directory holding .git
\* among the path and all its parents, the filesystem root included, and
\* raises exactly when none of them holds .git.
C21_NearestUpToRoot ==
    /\ root_pc = "returned" =>
          (Marked(0) # {} /\ current_path = Nearest(0))
    /\ root_pc = "raised" <=>
          (root_pc \in {"returned", "raised"} /\ Marked(0) = {})

\* C21, amended: find_git_root returns the nearest directory holding .git
\* among the path and its parents below the filesystem root, and raises
\* exactly when none of these holds .git; the filesystem root itself is
\* never looked at.
C21_NearestBelowRoot ==
    /\ root_pc = "returned" =>
          (Marked(1) # {} /\ current_path = Nearest(1))
    /\ root_pc = "raised" <=>
          (root_pc \in {"returned", "raised"} /\ Marked(1) = {})

\* Two directories above the path hold .git, the path and its parent do
\* not: the nearer one was returned.
C21_Witness ==
    /\ root_pc = "returned"
    /\ start_path = 4
    /\ git_dirs = {1, 2}
    /\ current_path = 2

-----------------------------------------------------------------------------
(* find-closest-commit.py: closest_commit *)

\* The longest list repo.iter_commits returns for the file.
MaxClosestRevs == 2

\* The lists repo.iter_commits(paths=...) may return: distinct commits.
ClosestHistories ==
    UNION { { h \in [1 .. n -> Commits] :
                \A i, j \in 1 .. n : h[i] = h[j] => i = j } :
            n \in 0 .. (IF MaxClosestRevs < Cardinality(Commits)
                        THEN MaxClosestRevs ELSE Cardinality(Commits)) }

\* The variables of every program but closest_commit.
closest_others ==
    << matches_vars, root_vars, logs_vars, selinux_vars, dup_vars >>

ClosestInit ==
    /\ MatchesIdle
    /\ RootIdle
    /\ LogsIdle
    /\ SelinuxIdle
    /\ DupIdle
    /\ closest_files \in {"both", "no archive file", "no git file"}
    /\ closest_archive \in Contents
    /\ \E h \in ClosestHistories :
          /\ closest_commits = h
          /\ closest_blobs \in [1 .. Len(h) -> Blobs]
    /\ closest_counter = 0
    /\ closest_min_commit = None
    /\ closest_min_length = NoLength
    /\ closest_min_counter = NoLength
    /\ closest_pc = "start"
    /\ closest_out = Report("none", None, NoLength, NoLength)

\* Line 16-21: one of the two files is missing: a line is printed and the
\* function returns.
ClosestFileMissing ==
    /\ closest_pc = "start"
    /\ closest_files # "both"
    /\ closest_out' = Report("File missing", None, NoLength, NoLength)
    /\ closest_pc' = "done"
    /\ UNCHANGED << closest_others, closest_files, closest_archive,
                    closest_commits, closest_blobs, closest_counter,
                    closest_min_commit, closest_min_length,
                    closest_min_counter >>

\* Line 23-38: the archive file is read and decoded, the revisions listed.
ClosestRead ==
    /\ closest_pc = "start"
    /\ closest_files = "both"
    /\ Decodable(closest_archive)
    /\ closest_pc' = "scan"
    /\ UNCHANGED << closest_others, closest_files, closest_archive,
                    closest_commits, closest_blobs, closest_counter,
                    closest_min_commit, closest_min_length,
                    closest_min_counter, closest_out >>

\* Line 25: archive_txt.decode() raises UnicodeDecodeError.
ClosestArchiveUndecodable ==
    /\ closest_pc = "start"
    /\ closest_files = "both"
    /\ ~Decodable(closest_archive)
    /\ closest_pc' = "crashed"
    /\ UNCHANGED << closest_others, closest_files, closest_archive,
                    closest_commits, closest_blobs, closest_counter,
                    closest_min_commit, closest_min_length,
                    closest_min_counter, closest_out >>

\* Line 40-46: the path is not in the tree of the commit: continue.
ClosestBlobMissing ==
    /\ closest_pc = "scan"
    /\ closest_counter < Len(closest_commits)
    /\ ~closest_blobs[closest_counter + 1].found
    /\ closest_counter' = closest_counter + 1
    /\ UNCHANGED << closest_others, closest_files, closest_archive,
                    closest_commits, closest_blobs, closest_min_commit,
                    closest_min_length, closest_min_counter, closest_pc,
                    closest_out >>

\* Line 49: git_txt.decode() raises UnicodeDecodeError.
ClosestBlobUndecodable ==
    /\ closest_pc = "scan"
    /\ closest_counter < Len(closest_commits)
    /\ closest_blobs[closest_counter + 1].found
    /\ ~Decodable(closest_blobs[closest_counter + 1].data)
    /\ closest_counter' = closest_counter + 1
    /\ closest_pc' = "crashed"
    /\ UNCHANGED << closest_others, closest_files, closest_archive,
                    closest_commits, closest_blobs, closest_min_commit,
                    closest_min_length, closest_min_counter, closest_out >>

\* Line 59: the diff replaces the tracked minimum.
ClosestCloser(min_length, length) ==
    min_length = NoLength \/ min_length > length

\* Line 48-65: the diff of the blob against the archive file; an empty diff
\* ends the loop.  enumerate counts from 0.
ClosestDiffStep ==
    /\ closest_pc = "scan"
    /\ closest_counter < Len(closest_commits)
    /\ closest_blobs[closest_counter + 1].found
    /\ Decodable(closest_blobs[closest_counter + 1].data)
    /\ closest_counter' = closest_counter + 1
    /\ LET length == diff_length(closest_blobs[closest_counter + 1].data,
                                 closest_archive)
       IN  /\ IF ClosestCloser(closest_min_length, length)
              THEN /\ closest_min_commit' = closest_commits[closest_counter + 1]
                   /\ closest_min_length' = length
                   /\ closest_min_counter' = closest_counter
              ELSE UNCHANGED << closest_min_commit, closest_min_length,
                                closest_min_counter >>
           /\ closest_pc' = IF length = 0 THEN "report" ELSE "scan"
    /\ UNCHANGED << closest_others, closest_files, closest_archive,
                    closest_commits, closest_blobs, closest_out >>

\* Line 39: the for loop over file_commits is exhausted.
ClosestScanEnd ==
    /\ closest_pc = "scan"
    /\ closest_counter = Len(closest_commits)
    /\ closest_pc' = "report"
    /\ UNCHANGED << closest_others, closest_files, closest_archive,
                    closest_commits, closest_blobs, closest_counter,
                    closest_min_commit, closest_min_length,
                    closest_min_counter, closest_out >>

\* Line 67-70: a revision has the lines of the archive file.
ClosestReportOlder ==
    /\ closest_pc = "report"
    /\ closest_min_length = 0
    /\ closest_out' = Report("Older file", closest_min_commit, NoLength,
                             closest_min_counter)
    /\ closest_pc' = "done"
    /\ UNCHANGED << closest_others, closest_files, closest_archive,
                    closest_commits, closest_blobs, closest_counter,
                    closest_min_commit, closest_min_length,
                    closest_min_counter >>

\* Line 71-75: the closest revision is reported.
ClosestReportWithoutMatch ==
    /\ closest_pc = "report"
    /\ closest_min_length # 0
    /\ closest_min_commit # None
    /\ closest_out' = Report("Differing file without match",
                             closest_min_commit, closest_min_length,
                             closest_min_counter)
    /\ closest_pc' = "done"
    /\ UNCHANGED << closest_others, closest_files, closest_archive,
                    closest_commits, closest_blobs, closest_counter,
                    closest_min_commit, closest_min_length,
                    closest_min_counter >>

\* Line 72-73: no blob was diffed: the first line is printed, then
\* min_diff_commit.hexsha raises AttributeError.
ClosestReportCrash ==
    /\ closest_pc = "report"
    /\ closest_min_length # 0
    /\ closest_min_commit = None
    /\ closest_out' = Report("Differing file without match", None, NoLength,
                             NoLength)
    /\ closest_pc' = "crashed"
    /\ UNCHANGED << closest_others, closest_files, closest_archive,
                    closest_commits, closest_blobs, closest_counter,
                    closest_min_commit, closest_min_length,
                    closest_min_counter >>

ClosestNext ==
    \/ ClosestFileMissing
    \/ ClosestRead
    \/ ClosestArchiveUndecodable
    \/ ClosestBlobMissing
    \/ ClosestBlobUndecodable
    \/ ClosestDiffStep
    \/ ClosestScanEnd
    \/ ClosestReportOlder
    \/ ClosestReportWithoutMatch
    \/ ClosestReportCrash

ClosestSpec == ClosestInit /\ [][ClosestNext]_vars

\* The revisions of the list whose blob can be read.
ClosestReadable == { i \in 1 .. Len(closest_commits) : closest_blobs[i].found }

\* The diff line count of revision i against the archive file.
ClosestDiffAt(i) == diff_length(closest_blobs[i].data, closest_archive)

\* The revisions whose diff against the archive file is empty.
ClosestZero == { i \in ClosestReadable : ClosestDiffAt(i) = 0 }

\* The newest revision of a set.
Newest(S) == CHOOSE i \in S : \A j \in S : i <= j

\* The revisions with the smallest diff.
ClosestMinimal ==
    { i \in ClosestReadable :
        \A j \in ClosestReadable : ClosestDiffAt(i) <= ClosestDiffAt(j) }

\* Both files exist and the archive file and every blob are text.
ClosestTextInputs ==
    /\ closest_files = "both"
    /\ Decodable(closest_archive)
    /\ \A i \in ClosestReadable : Decodable(closest_blobs[i].data)

\* C24: for text files that both exist closest_commit ends with a report: the
\* newest revision with an empty diff as the matching commit, with its
\* position counted from 0; without one the newest revision with the
\* smallest diff, its line count and position; and without any readable
\* revision (an empty list, every lookup failing) a report that names no
\* revision.
C24_ClosestReported ==
    (ClosestTextInputs /\ closest_pc \in {"done", "crashed"}) =>
        /\ closest_pc = "done"
        /\ IF ClosestZero # {}
           THEN closest_out =
                   Report("Older file", closest_commits[Newest(ClosestZero)],
                          NoLength, Newest(ClosestZero) - 1)
           ELSE IF ClosestReadable # {}
           THEN closest_out =
                   Report("Differing file without match",
                          closest_commits[Newest(ClosestMinimal)],
                          ClosestDiffAt(Newest(ClosestMinimal)),
                          Newest(ClosestMinimal) - 1)
           ELSE closest_out.kind = "Differing file without match"

-----------------------------------------------------------------------------
(* compare-logs.py: compare_logs *)

\* The longest log file.
MaxLines == 3

\* The widest matching context.
MaxContext == 1

\* The lines of the logs: two messages, one of them also indented.
LogLines == {"a", " a", "b"}

\* str.strip().
strip(line) == IF line = " a" THEN "a" ELSE line

\* The log files: the sequences of at most MaxLines lines.
LogFiles == UNION { [1 .. n -> LogLines] : n \in 0 .. MaxLines }

DiffEntry(old, new, content) ==
    [line_number_old |-> old, line_number_new |-> new, content |-> content]

\* The variables of every program but compare_logs.
logs_others ==
    << matches_vars, root_vars, closest_vars, selinux_vars, dup_vars >>

LogsInit ==
    /\ MatchesIdle
    /\ RootIdle
    /\ ClosestIdle
    /\ SelinuxIdle
    /\ DupIdle
    /\ file1_lines \in LogFiles
    /\ file2_lines \in LogFiles
    /\ context \in 0 .. MaxContext
    /\ used_indices = {}
    /\ result = <<>>
    /\ logs_i = 1
    /\ logs_pc = "first"

\* Line 85 with the test lost: a used line of file 2 can be matched again.
UnusedAlways(j, used) == TRUE

\* Line 85: j is not in used_indices.
Unused(j, used) == j \notin used

\* Line 81-87: the line numbers of file 2 that line i of file 1 can match:
\* in range(start, end), unused, with the same stripped content.
Candidates(i) ==
    LET start == IF i - context < 1 THEN 1 ELSE i - context
        end == IF Len(file2_lines) < i + context
               THEN Len(file2_lines) ELSE i + context
    IN  { j \in start .. end :
            /\ Unused(j, used_indices)
            /\ strip(file1_lines[i]) = strip(file2_lines[j]) }

\* Line 84-90: the inner loop stops at the first candidate.
LogsMatch ==
    /\ logs_pc = "first"
    /\ logs_i <= Len(file1_lines)
    /\ Candidates(logs_i) # {}
    /\ LET j == CHOOSE c \in Candidates(logs_i) :
                    \A d \in Candidates(logs_i) : c <= d
       IN  used_indices' = used_indices \cup {j}
    /\ logs_i' = logs_i + 1
    /\ UNCHANGED << logs_others, file1_lines, file2_lines, context, result,
                    logs_pc >>

\* Line 92-97: no line of file 2 was found: the line is reported as removed.
LogsRemoved ==
    /\ logs_pc = "first"
    /\ logs_i <= Len(file1_lines)
    /\ Candidates(logs_i) = {}
    /\ result' = Append(result,
                   DiffEntry(logs_i, 0 - 1, strip(file1_lines[logs_i])))
    /\ logs_i' = logs_i + 1
    /\ UNCHANGED << logs_others, file1_lines, file2_lines, context,
                    used_indices, logs_pc >>

\* Line 79, 99: the first loop is over, the second starts.
LogsSecondLoop ==
    /\ logs_pc = "first"
    /\ logs_i > Len(file1_lines)
    /\ logs_i' = 1
    /\ logs_pc' = "second"
    /\ UNCHANGED << logs_others, file1_lines, file2_lines, context,
                    used_indices, result >>

\* Line 99-105: a line of file 2 that was not matched is reported as added.
LogsAdded ==
    /\ logs_pc = "second"
    /\ logs_i <= Len(file2_lines)
    /\ result' =
          IF logs_i \notin used_indices
          THEN Append(result,
                      DiffEntry(0 - 1, logs_i, strip(file2_lines[logs_i])))
          ELSE result
    /\ logs_i' = logs_i + 1
    /\ UNCHANGED << logs_others, file1_lines, file2_lines, context,
                    used_indices, logs_pc >>

\* Line 109-111: the sort key of an entry.
key(x) ==
    IF x.line_number_old # 0 - 1 THEN x.line_number_old ELSE x.line_number_new

\* sorted(result, key=...): Python's sort is stable; x goes behind every
\* entry whose key is not larger.
RECURSIVE Insert(_, _)
Insert(seq, x) ==
    IF seq = <<>> THEN << x >>
    ELSE IF key(seq[Len(seq)]) <= key(x) THEN Append(seq, x)
    ELSE Append(Insert(SubSeq(seq, 1, Len(seq) - 1), x), seq[Len(seq)])

RECURSIVE sorted_by_key(_)
sorted_by_key(seq) ==
    IF seq = <<>> THEN <<>>
    ELSE Insert(sorted_by_key(SubSeq(seq, 1, Len(seq) - 1)), seq[Len(seq)])

\* Line 107-112: the second loop is over; the sorted result is returned.
LogsReturn ==
    /\ logs_pc = "second"
    /\ logs_i > Len(file2_lines)
    /\ result' = sorted_by_key(result)
    /\ logs_pc' = "done"
    /\ UNCHANGED << logs_others, file1_lines, file2_lines, context,
                    used_indices, logs_i >>

LogsNext ==
    \/ LogsMatch
    \/ LogsRemoved
    \/ LogsSecondLoop
    \/ LogsAdded
    \/ LogsReturn

LogsSpec == LogsInit /\ [][LogsNext]_vars

\* The entries of the result that report line i of file 1 as removed.
RemovedAt(i) ==
    { k \in 1 .. Len(result) :
        result[k].line_number_old = i /\ result[k].line_number_new = 0 - 1 }

\* The entries of the result that report line j of file 2 as added.
AddedAt(j) ==
    { k \in 1 .. Len(result) :
        result[k].line_number_new = j /\ result[k].line_number_old = 0 - 1 }

\* The number of removed and of added entries of the result.
RemovedCount ==
    Cardinality({ k \in 1 .. Len(result) : result[k].line_number_new = 0 - 1 })

AddedCount ==
    Cardinality({ k \in 1 .. Len(result) : result[k].line_number_old = 0 - 1 })

\* The step of the first loop matches line i of file 1 to line j of file 2.
MatchesTo(i, j) ==
    /\ j \in 1 .. Len(file2_lines)
    /\ j \notin used_indices
    /\ used_indices' = used_indices \cup {j}
    /\ strip(file1_lines[i]) = strip(file2_lines[j])
    /\ i - context <= j
    /\ j <= i + context
    /\ result' = result

\* What compare_logs returns.
LogsResult ==
    /\ \A i \in 1 .. Len(file1_lines) : Cardinality(RemovedAt(i)) <= 1
    /\ \A j \in 1 .. Len(file2_lines) :
          Cardinality(AddedAt(j)) = IF j \in used_indices THEN 0 ELSE 1
    /\ Len(result) = RemovedCount + AddedCount
    /\ RemovedCount - AddedCount = Len(file1_lines) - Len(file2_lines)
    /\ \A k \in 1 .. (Len(result) - 1) : key(result[k]) <= key(result[k + 1])

\* C25: every line of file 1 is either matched to a line of file 2 that no
\* earlier line was matched to, with the same stripped content and a line
\* number within context of its own, or reported once as removed; every
\* line of file 2 that was not matched is reported exactly once as added;
\* the removed count minus the added count is len(file1) - len(file2), and
\* the result is ordered by line number.
C25_InjectiveMatching ==
    [][/\ (logs_pc = "first" /\ logs_i <= Len(file1_lines)) =>
             \/ \E j \in 1 .. Len(file2_lines) : MatchesTo(logs_i, j)
             \/ /\ used_indices' = used_indices
                /\ RemovedAt(logs_i) = {}
                /\ result' = Append(result,
                               DiffEntry(logs_i, 0 - 1, strip(file1_lines[logs_i])))
       /\ logs_pc' = "done" => LogsResult']_vars

\* Both files hold the same message twice, the second file once indented:
\* with two matches and one removed and one added line the result is sorted.
C25_Witness ==
    /\ logs_pc = "done"
    /\ Cardinality(used_indices) = 2
    /\ RemovedCount = 1
    /\ AddedCount = 1
    /\ \E j \in used_indices : file2_lines[j] = " a"

-----------------------------------------------------------------------------
(* extract-selinux-denials.py: SELinuxPolicyGenerator.parse_denial *)

\* The number of calls of parse_denial.
MaxCalls == 3

\* A denial string is the sequence of its words, which single blanks
\* separate; a word is a bare word or name=value.
W(v) == [k |-> "", v |-> v]

KV(k, v) == [k |-> k, v |-> v]

\* The strings parse_denial is called with: well formed ones, with tclass
\* last or followed by another word, and malformed ones.
DenialStrings ==
    { << W("{"), W("read"), W("}"),
         KV("scontext=", "s1"), KV("tcontext=", "t1"), KV("tclass=", "c1") >>,
      << W("{"), W("write"), W("}"),
         KV("scontext=", "s1"), KV("tcontext=", "t1"), KV("tclass=", "c1"),
         KV("permissive=", "0") >>,
      << W("{"), W("read"), W("open"), W("}"),
         KV("scontext=", "s1"), KV("tcontext=", "t1"), KV("tclass=", "c1") >>,
      << W("{"), W("read"), W("}"),
         KV("scontext=", "s2"), KV("tcontext=", "t1"), KV("tclass=", "c1") >>,
      << W("read"),
         KV("scontext=", "s1"), KV("tcontext=", "t1"), KV("tclass=", "c1") >>,
      << W("{"), W("read"),
         KV("scontext=", "s1"), KV("tcontext=", "t1"), KV("tclass=", "c1") >>,
      << W("{"), W("read"), W("}"),
         KV("tcontext=", "t1"), KV("tclass=", "c1") >>,
      << W("{"), W("read"), W("}"),
         KV("tclass=", "c1"), KV("tcontext=", "t1"), KV("scontext=", "s1") >>,
      << W("{"), W("read"), W("}"),
         KV("scontext=", "s1"), KV("tcontext=", "t1") >> }

\* The first word of a set of positions, 0 where str.find returns -1.
First(S) == IF S = {} THEN 0 ELSE CHOOSE i \in S : \A j \in S : i <= j

\* Line 16-18: "{ " is the first brace word with a word behind it, " }" the
\* first closing brace whose blank lies behind the "{ ".
PermissionStart(str) ==
    First({ i \in 1 .. Len(str) - 1 : str[i] = W("{") })

PermissionEnd(str) ==
    First({ j \in PermissionStart(str) + 2 .. Len(str) : str[j] = W("}") })

\* Line 23-44: the first word name=..., 0 without one.
Field(str, name) == First({ i \in 1 .. Len(str) : str[i].k = name })

\* Line 16-40: the tests that raise ValueError; scontext and tcontext need a
\* blank behind their value, tclass may end the string.
Malformed(str) ==
    \/ PermissionStart(str) = 0
    \/ PermissionEnd(str) = 0
    \/ Field(str, "scontext=") = 0
    \/ Field(str, "scontext=") = Len(str)
    \/ Field(str, "tcontext=") = 0
    \/ Field(str, "tcontext=") = Len(str)
    \/ Field(str, "tclass=") = 0

\* Line 20: denial_string[permission_start:permission_end].split().
Permissions(str) ==
    [i \in 1 .. (PermissionEnd(str) - PermissionStart(str) - 1) |->
        str[PermissionStart(str) + i].v]

\* Line 47: key = (scontext, tcontext, tclass).
Key(str) ==
    << str[Field(str, "scontext=")].v,
       str[Field(str, "tcontext=")].v,
       str[Field(str, "tclass=")].v >>

\* set(permissions).
set(seq) == { seq[i] : i \in 1 .. Len(seq) }

\* The variables of every program but the generator.
selinux_others ==
    << matches_vars, root_vars, closest_vars, logs_vars, dup_vars >>

SelinuxInit ==
    /\ MatchesIdle
    /\ RootIdle
    /\ ClosestIdle
    /\ LogsIdle
    /\ SelinuxIdle
    /\ DupIdle

\* Line 53 for both branches: the permissions replace the set of the key.
UpdateReplace(old, permissions) == set(permissions)

\* Line 51: self.denials[key].update(permissions).
Update(old, permissions) == old \cup set(permissions)

\* Line 13-55: a call that returns.
ParseDenial ==
    /\ parse_calls < MaxCalls
    /\ \E str \in DenialStrings :
          /\ ~Malformed(str)
          /\ LET denial_key == Key(str)
                 permissions == Permissions(str)
             IN  /\ denials' =
                       IF denial_key \in DOMAIN denials
                       THEN [denials EXCEPT ![denial_key] = Update(@, permissions)]
                       ELSE [k \in DOMAIN denials \cup {denial_key} |->
                               IF k = denial_key THEN set(permissions)
                               ELSE denials[k]]
                 /\ returned' =
                       returned \cup { << denial_key, set(permissions) >> }
                 /\ parse_last' = [denial_string |-> str, outcome |-> "returned",
                                  key |-> denial_key]
    /\ parse_calls' = parse_calls + 1
    /\ UNCHANGED selinux_others

\* Line 18-19, 25-26, 32-33, 39-40: a call that raises ValueError.
ParseDenialRaises ==
    /\ parse_calls < MaxCalls
    /\ \E str \in DenialStrings :
          /\ Malformed(str)
          /\ parse_last' = [denial_string |-> str, outcome |-> "ValueError",
                           key |-> << >>]
    /\ parse_calls' = parse_calls + 1
    /\ UNCHANGED << selinux_others, denials, returned >>

SelinuxNext ==
    \/ ParseDenial
    \/ ParseDenialRaises

SelinuxSpec == SelinuxInit /\ [][SelinuxNext]_vars

\* denials holds, for the keys that were returned and no other, the union of
\* the permission sets returned with the key.
UnionOfReturned ==
    /\ DOMAIN denials = { r[1] : r \in returned }
    /\ \A denial_key \in DOMAIN denials :
          denials[denial_key] =
              UNION { r[2] : r \in { q \in returned : q[1] = denial_key } }

\* C26: after any sequence of parse_denial calls, denials[key] is the union
\* of the permission sets of the calls that returned with that key; a call
\* that raises ValueError leaves denials as it was, and a call that
\* returns changes the entry of its own key only.
C26_DenialsAccumulate ==
    [][parse_calls' # parse_calls =>
          /\ UnionOfReturned'
          /\ parse_last'.outcome = "ValueError" => denials' = denials
          /\ parse_last'.outcome = "returned" =>
                /\ DOMAIN denials' = DOMAIN denials \cup {parse_last'.key}
                /\ \A denial_key \in DOMAIN denials :
                      denial_key # parse_last'.key =>
                          denials'[denial_key] = denials[denial_key]]_vars

\* Three calls returned, two with the same key and other permissions: the
\* key holds both; a second key holds its own.
C26_Witness ==
    /\ parse_calls = 3
    /\ Cardinality(DOMAIN denials) = 2
    /\ denials[<< "s1", "t1", "c1" >>] = {"read", "write"}
    /\ denials[<< "s2", "t1", "c1" >>] = {"read"}

-----------------------------------------------------------------------------
(* find-duplicate-files.py: find_identical_files and main *)

\* The number of relative paths the two directories hold between them.
MaxFiles == 3

\* The relative paths, none below a .git directory.
DupPaths == 1 .. MaxFiles

\* What a directory holds at a relative path: nothing, a file with its
\* bytes, or a file open() cannot read.
DupFiles ==
    { [kind |-> "absent", data |-> << >>],
      [kind |-> "unreadable", data |-> << >>],
      [kind |-> "file", data |-> << 1 >>],
      [kind |-> "file", data |-> << 2, 2 >>] }

\* Line 21-36: get_relative_files of an existing directory.
get_relative_files(directory) ==
    { p \in DupPaths : directory[p].kind # "absent" }

\* Line 12-18: the digest of the bytes of a file.
calculate_file_hash(file) == sha256sum(file.data)

\* The variables of every program but find-duplicate-files.py.
dup_others ==
    << matches_vars, root_vars, closest_vars, logs_vars, selinux_vars >>

DupInit ==
    /\ MatchesIdle
    /\ RootIdle
    /\ ClosestIdle
    /\ LogsIdle
    /\ SelinuxIdle
    /\ dir1 \in [DupPaths -> DupFiles]
    /\ dir2 \in [DupPaths -> DupFiles]
    /\ common_files = {}
    /\ identical_files = {}
    /\ different = {}
    /\ warned = {}
    /\ dup_pc = "start"
    /\ dup_result = "none"
    /\ dup_exit = NoLength

\* Line 43-51: no relative path is in both directories: return [].
DupNoCommon ==
    /\ dup_pc = "start"
    /\ get_relative_files(dir1) \cap get_relative_files(dir2) = {}
    /\ different' =
          (get_relative_files(dir1) \ get_relative_files(dir2))
             \cup (get_relative_files(dir2) \ get_relative_files(dir1))
    /\ dup_result' = "empty list"
    /\ dup_pc' = "returned"
    /\ UNCHANGED << dup_others, dir1, dir2, common_files, identical_files,
                    warned, dup_exit >>

\* Line 43-54: the common files and the files of one directory only.
DupCommon ==
    /\ dup_pc = "start"
    /\ get_relative_files(dir1) \cap get_relative_files(dir2) # {}
    /\ common_files' = get_relative_files(dir1) \cap get_relative_files(dir2)
    /\ different' =
          (get_relative_files(dir1) \ get_relative_files(dir2))
             \cup (get_relative_files(dir2) \ get_relative_files(dir1))
    /\ dup_pc' = "loop"
    /\ UNCHANGED << dup_others, dir1, dir2, identical_files, warned,
                    dup_result, dup_exit >>

\* Line 56-68: one common file, both copies read; the loop takes the files
\* of the set in any order.
DupCompare ==
    /\ dup_pc = "loop"
    /\ \E rel_path \in common_files :
          /\ dir1[rel_path].kind = "file"
          /\ dir2[rel_path].kind = "file"
          /\ common_files' = common_files \ {rel_path}
          /\ IF calculate_file_hash(dir1[rel_path])
                  = calculate_file_hash(dir2[rel_path])
             THEN /\ identical_files' = identical_files \cup {rel_path}
                  /\ different' = different
             ELSE /\ different' = different \cup {rel_path}
                  /\ identical_files' = identical_files
    /\ UNCHANGED << dup_others, dir1, dir2, warned, dup_pc, dup_result,
                    dup_exit >>

\* Line 69-70: a copy cannot be read: the warning is printed.
DupWarning ==
    /\ dup_pc = "loop"
    /\ \E rel_path \in common_files :
          /\ \/ dir1[rel_path].kind = "unreadable"
             \/ dir2[rel_path].kind = "unreadable"
          /\ common_files' = common_files \ {rel_path}
          /\ warned' = warned \cup {rel_path}
    /\ UNCHANGED << dup_others, dir1, dir2, identical_files, different,
                    dup_pc, dup_result, dup_exit >>

\* Line 72: the loop is over: the two sorted lists are returned.
DupReturn ==
    /\ dup_pc = "loop"
    /\ common_files = {}
    /\ dup_result' = "pair"
    /\ dup_pc' = "returned"
    /\ UNCHANGED << dup_others, dir1, dir2, common_files, identical_files,
                    different, warned, dup_exit >>

\* Line 93-101, 110: main unpacks the pair, reports the counts and returns 0.
DupReport ==
    /\ dup_pc = "returned"
    /\ dup_result = "pair"
    /\ dup_exit' = 0
    /\ dup_pc' = "exited"
    /\ UNCHANGED << dup_others, dir1, dir2, common_files, identical_files,
                    different, warned, dup_result >>

\* Line 93, 103-105: unpacking [] into two names raises ValueError, which
\* main reports as 'Error: ...' and returns 1.
DupUnpackError ==
    /\ dup_pc = "returned"
    /\ dup_result = "empty list"
    /\ dup_exit' = 1
    /\ dup_pc' = "exited"
    /\ UNCHANGED << dup_others, dir1, dir2, common_files, identical_files,
                    different, warned, dup_result >>

DupNext ==
    \/ DupNoCommon
    \/ DupCommon
    \/ DupCompare
    \/ DupWarning
    \/ DupReturn
    \/ DupReport
    \/ DupUnpackError

DupSpec == DupInit /\ [][DupNext]_vars

\* The relative paths of the files of a directory.
FilesOf(directory) == { p \in DupPaths : directory[p].kind # "absent" }

\* The paths in both directories whose copies can be read.
CommonReadable ==
    { p \in FilesOf(dir1) \cap FilesOf(dir2) :
        dir1[p].kind = "file" /\ dir2[p].kind = "file" }

\* C27: for two existing directories and without a comparison error,
\* find_identical_files returns a pair (identical, different) that
\* partitions the relative paths of both directories: identical holds the
\* common paths with equal bytes, different the paths of one directory only
\* and the common paths with unequal bytes; also when no path is common,
\* where main reports every file as different and returns 0.
C27_PartitionReturned ==
    (dup_pc = "exited" /\ CommonReadable = FilesOf(dir1) \cap FilesOf(dir2)) =>
        /\ dup_result = "pair"
        /\ dup_exit = 0
        /\ identical_files = { p \in CommonReadable : dir1[p].data = dir2[p].data }
        /\ different = (FilesOf(dir1) \cup FilesOf(dir2)) \ identical_files
        /\ identical_files \cap different = {}

====
